---------------------------- MODULE Spec2Model ----------------------------
(*
  aiocogeo/tiler.py: COGTiler (one raster source: tile, point, part, preview,
  info) and CompositeTiler (fan-out of one operation over a list of tilers
  with asyncio.gather).

  Arrays are represented by their provenance: a windowed read is the record
  of the source and the window that was read, a reprojected array is the
  record of the array it was made from and the two grids, and so on.  Two
  arrays are pixel-identical when their provenance records are equal.

  Coordinates, pixel sizes and raster dimensions are integers.  The fields
  of every record are written in the order TLC keeps them in.
*)
EXTENDS Integers, Sequences, FiniteSets, TLC

-----------------------------------------------------------------------------
(* Bounds of the model *)

MaxSmallDim == 3        \* small raster sides 1..MaxSmallDim (plus 128, 256, 512)
MaxRes      == 2        \* native pixel sizes 1..MaxRes
MaxCoord    == 2        \* part() bounds coordinates 0..MaxCoord
MaxSize     == 4        \* preview() max_size 1..MaxSize
MaxTileZ    == 1        \* tile() zoom levels 0..MaxTileZ
MaxReaders  == 3        \* CompositeTiler wraps 0..MaxReaders tilers

-----------------------------------------------------------------------------
(* Program constants *)

DefaultTileSize == 256        \* tile_size default and the divisor in info()
ZoomMaxZ        == 24         \* zoom_for_pixelsize(max_z=24)
EarthCircumference == 40075016 \* floor(2 * pi * 6378137) metres
NoneDim         == -1         \* stands for Python's None for width / height

WebMercator == "EPSG:3857"    \* DEFAULT_TMS.crs
WGS84       == "EPSG:4326"
UTM18       == "EPSG:32618"

NEAREST  == "NEAREST"         \* Image.NEAREST, also rasterio's default resampling
BILINEAR == "BILINEAR"
Methods  == {NEAREST, BILINEAR}
DefaultMethod == "default"    \* cog.read() called without resample_method

-----------------------------------------------------------------------------
(* Arithmetic helpers *)

Max(a, b) == IF a >= b THEN a ELSE b
Abs(a) == IF a >= 0 THEN a ELSE -a

RECURSIVE Pow2(_)
Pow2(n) == IF n = 0 THEN 1 ELSE 2 * Pow2(n - 1)

RECURSIVE GCD(_, _)
GCD(a, b) == IF b = 0 THEN a ELSE GCD(b, a % b)

RECURSIVE IsPow2(_)
IsPow2(n) == IF n = 1 THEN TRUE ELSE IF n % 2 = 1 THEN FALSE ELSE IsPow2(n \div 2)

\* math.ceil(n / d) for a positive divisor d
CeilDiv(n, d) == -((-n) \div d)

\* Python truthiness of an optional dimension: None and 0 are both falsy
Falsy(v) == v = NoneDim \/ v = 0


-----------------------------------------------------------------------------
(* External collaborators: geometry utilities, tiling scheme, raster source *)

\* Raster sides: small ones, and sides around the 256-pixel tile size
Dims == (1..MaxSmallDim) \cup {DefaultTileSize \div 2, DefaultTileSize, DefaultTileSize * 2}

\* A raster source (self.cog with its profile).  transform.a = a, transform.e = -e,
\* origin (0, height * e), so the native bounds start at (0, 0).
Sources ==
    [a : 1..MaxRes, crs : {WebMercator, UTM18},
     width : Dims, height : Dims, e : 1..MaxRes]

\* profile["count"], profile["dtype"], profile["photometric"]
ProfileCount(src) == IF src.crs = WebMercator THEN 3 ELSE 1
ProfileDtype(src) == IF src.crs = WebMercator THEN "uint8" ELSE "uint16"
ProfilePhotometric(src) == IF src.crs = WebMercator THEN "rgb" ELSE "minisblack"

\* self.cog.bounds: (min_x, min_y, max_x, max_y) in the source CRS
CogBounds(src) == <<0, 0, src.width * src.a, src.height * src.e>>

\* A coordinate of a CRS is scale * ground + shift, ground being the position
\* on the surface the CRSs share.
CrsScale(crs) == IF crs = WGS84 THEN 1 ELSE IF crs = UTM18 THEN 3 ELSE 5
CrsShift(crs) == IF crs = UTM18 THEN 5 ELSE 0

\* One coordinate of src_crs expressed in dst_crs
TransformCoord(src_crs, dst_crs, v) ==
    ((v - CrsShift(src_crs)) * CrsScale(dst_crs)) \div CrsScale(src_crs)
    + CrsShift(dst_crs)

\* rasterio.warp.transform_bounds(src_crs, dst_crs, *bounds)
TransformBounds(src_crs, dst_crs, b) ==
    [i \in 1..4 |-> TransformCoord(src_crs, dst_crs, b[i])]

\* rasterio.warp.transform(src_crs, dst_crs, [x], [y]), first point of each axis
TransformCoords(src_crs, dst_crs, c) ==
    [i \in 1..2 |-> TransformCoord(src_crs, dst_crs, c[i])]

\* rasterio.transform.from_bounds(west, south, east, north, width, height):
\* origin (west, north), pixel size (east - west) / width by (north - south) / height
FromBounds(b, width, height) ==
    [width |-> width, height |-> height, c |-> b[1], f |-> b[4],
     xspan |-> b[3] - b[1], yspan |-> b[4] - b[2]]

\* A tile matrix set: a quadtree over the square [0, 2^MaxTileZ]^2 of its CRS
TileSchemes == [crs : {WebMercator, WGS84}]
WorldSize == Pow2(MaxTileZ)

\* tms.xy_bounds(Tile(x, y, z)): row 0 is the top row
XYBounds(tms, x, y, z) ==
    LET cell == WorldSize \div Pow2(z)
    IN  <<x * cell, WorldSize - (y + 1) * cell, (x + 1) * cell, WorldSize - y * cell>>

\* await self.cog.read(bounds, shape=..., resample_method=...): the array read
CogRead(src, bounds, shape, method) ==
    [src |-> src, bounds |-> bounds, shape |-> shape, method |-> method,
     array |-> "read"]

\* await self.cog.point(x, y)
CogPoint(src, coords) ==
    [src |-> src, array |-> "point", coords |-> coords]

\* rasterio.warp.reproject(arr, destination=..., src_transform=..., ...)
Reproject(arr, dest_shape, src_transform, dst_transform, src_crs, dst_crs, resampling) ==
    [src_crs |-> src_crs, dst_crs |-> dst_crs, array |-> "reproject",
     dest_shape |-> dest_shape, src_transform |-> src_transform,
     dst_transform |-> dst_transform, resampling |-> resampling, of |-> arr]

\* arr.astype(dtype)
Astype(arr, dtype) == [array |-> "astype", of |-> arr, dtype |-> dtype]

\* rio_tiler.mercator.zoom_for_pixelsize(pixel_size), with num = 256 * pixel_size:
\* the first z in 0..max_z-1 with pixel_size > 2*pi*R / (256 * 2^z) gives
\* max(0, z - 1); when there is none the answer is max_z - 1.
ZoomForPixelsize(num) ==
    LET finer == {z \in 0..(ZoomMaxZ - 1) : num > EarthCircumference \div Pow2(z)}
    IN  IF finer = {} THEN ZoomMaxZ - 1
        ELSE LET z == CHOOSE m \in finer : \A k \in finer : m <= k
             IN  Max(0, z - 1)

-----------------------------------------------------------------------------
(* COGTiler.  Every operation gives the record of what it did:
   reads  - the calls made on the source, in order,
   warps  - the reproject calls, in order,
   ret    - the value returned when the source's read succeeds. *)

ReadCall(bounds, shape, method) ==
    [bounds |-> bounds, shape |-> shape, method |-> method, fn |-> "read"]
PointCall(coords) == [coords |-> coords, fn |-> "point"]

\* The resampling reproject() is called with: the call passes none, so
\* rasterio's default (nearest) applies whatever resample_method is.
WarpResampling(resample_method) == NEAREST

COGTiler_warped_read(src, bounds0, width, height, bounds_crs, resample_method) ==
    LET src_transform == FromBounds(bounds0, width, height)
        bounds == TransformBounds(bounds_crs, src.crs, bounds0)
        dst_transform == FromBounds(bounds, width, height)
        arr == CogRead(src, bounds, <<width, height>>, resample_method)
        warp == Reproject(arr, <<ProfileCount(src), width, height>>,
                          dst_transform, src_transform, src.crs, bounds_crs,
                          WarpResampling(resample_method))
    IN  [reads |-> <<ReadCall(bounds, <<width, height>>, resample_method)>>,
         warps |-> <<warp>>,
         ret   |-> Astype(warp, ProfileDtype(src))]

\* a tile() that warps every read
TileNeedsWarp_Always(src, tms) == TRUE

\* the test of line 131
TileNeedsWarp(src, tms) == src.crs # tms.crs

COGTiler_tile(src, x, y, z, tile_size, tms, resample_method) ==
    LET tile_bounds == XYBounds(tms, x, y, z)
        width == tile_size
        height == tile_size
    IN  IF TileNeedsWarp(src, tms)
        THEN COGTiler_warped_read(src, tile_bounds, width, height, tms.crs,
                                  resample_method)
        ELSE [reads |-> <<ReadCall(tile_bounds, <<width, height>>, resample_method)>>,
              warps |-> <<>>,
              ret   |-> CogRead(src, tile_bounds, <<width, height>>, resample_method)]

COGTiler_point(src, coords0, coords_crs) ==
    LET coords == IF coords_crs # src.crs
                  THEN TransformCoords(coords_crs, src.crs, coords0)
                  ELSE coords0
    IN  [reads |-> <<PointCall(coords)>>, warps |-> <<>>,
         ret   |-> CogPoint(src, coords)]

\* a part() that rounds the extent down instead of up
PartShape_Floor(src, bounds, width, height) ==
    IF Falsy(height) \/ Falsy(width)
    THEN <<(bounds[3] - bounds[1]) \div src.a, (bounds[4] - bounds[2]) \div src.e>>
    ELSE <<width, height>>

\* lines 169-171: the shape part() reads at
PartShape(src, bounds, width, height) ==
    IF Falsy(height) \/ Falsy(width)
    THEN <<CeilDiv(bounds[3] - bounds[1], src.a), CeilDiv(bounds[4] - bounds[2], src.e)>>
    ELSE <<width, height>>

COGTiler_part(src, bounds0, bounds_crs, width, height) ==
    LET bounds == IF bounds_crs # src.crs
                  THEN TransformBounds(bounds_crs, src.crs, bounds0)
                  ELSE bounds0
        shape == PartShape(src, bounds, width, height)
    IN  [reads |-> <<ReadCall(bounds, shape, DefaultMethod)>>, warps |-> <<>>,
         ret   |-> CogRead(src, bounds, shape, DefaultMethod)]

\* h / w is an exact double when the reduced denominator is a power of two
ExactRatio(h, w) == IsPow2(w \div GCD(h, w))

\* math.ceil(num / den) as lines 188-194 compute it, in doubles, through the
\* rounded ratio height / width: when that ratio is inexact and num / den is
\* a whole number k, the product or quotient can land just above k and the
\* ceiling is k + 1 (a 187 x 3 raster at max_size 187 gives height 4).
\* fp_up says whether the rounding lands above.
CeilScaled(num, den, exact, fp_up) ==
    IF num % den = 0 /\ ~exact /\ fp_up
    THEN num \div den + 1
    ELSE CeilDiv(num, den)

\* a preview() that scales whenever the raster is not square, whatever max_size
PreviewShape_NoNativeCase(src, width, height, max_size, fp_up) ==
    IF Falsy(height) /\ Falsy(width)
    THEN IF src.height > src.width
         THEN <<CeilScaled(max_size * src.width, src.height,
                           ExactRatio(src.height, src.width), fp_up), max_size>>
         ELSE <<max_size, CeilScaled(max_size * src.height, src.width,
                                     ExactRatio(src.height, src.width), fp_up)>>
    ELSE <<width, height>>

\* lines 184-194: the shape preview() reads at
PreviewShape(src, width, height, max_size, fp_up) ==
    IF Falsy(height) /\ Falsy(width)
    THEN IF Max(src.height, src.width) < max_size
         THEN <<src.width, src.height>>
         ELSE IF src.height > src.width      \* ratio = height / width > 1
              THEN <<CeilScaled(max_size * src.width, src.height,
                                ExactRatio(src.height, src.width), fp_up), max_size>>
              ELSE <<max_size, CeilScaled(max_size * src.height, src.width,
                                          ExactRatio(src.height, src.width), fp_up)>>
    ELSE <<width, height>>

COGTiler_preview(src, width, height, max_size, resample_method, fp_up) ==
    LET shape == PreviewShape(src, width, height, max_size, fp_up)
    IN  [reads |-> <<ReadCall(CogBounds(src), shape, resample_method)>>,
         warps |-> <<>>,
         ret   |-> CogRead(src, CogBounds(src), shape, resample_method)]

\* lines 205-213 (the resolutions are passed as 256 * pixel size)
InfoMaxZoom(src) == ZoomForPixelsize(Max(src.a, Abs(-src.e)) * DefaultTileSize)
InfoMinZoom(src) ==
    ZoomForPixelsize(Max(src.a, Abs(-src.e)) * Max(src.width, src.height))

COGTiler_info(src) ==
    [reads |-> <<>>, warps |-> <<>>,
     ret |-> [bounds |-> TransformBounds(src.crs, WGS84, CogBounds(src)),
              dtype |-> ProfileDtype(src),
              min_zoom |-> InfoMinZoom(src),
              max_zoom |-> InfoMaxZoom(src),
              color_interp |-> ProfilePhotometric(src)]]

-----------------------------------------------------------------------------
(* One COGTiler and its caller *)

VARIABLES
    tsrc,     \* the source the COGTiler wraps
    tcall,    \* the last call made on the tiler: operation and arguments
    tout      \* what that call did: status, reads, warps, ret

tvars == <<tsrc, tcall, tout>>

SourceError == [exc |-> "SourceError"]
NoCall == [op |-> "none"]
NoOut == [reads |-> <<>>, warps |-> <<>>, ret |-> [exc |-> "none"], status |-> "none"]

\* The call's outcome: when the awaited read raises, nothing after the read
\* runs and the exception reaches the caller unchanged.
Deliver(r, ok) ==
    IF ok
    THEN [reads |-> r.reads, warps |-> r.warps, ret |-> r.ret, status |-> "returned"]
    ELSE [reads |-> r.reads, warps |-> <<>>, ret |-> SourceError, status |-> "raised"]

OptDims == {NoneDim, 0, 2}
Tiles == {t \in [x : 0..(Pow2(MaxTileZ) - 1), y : 0..(Pow2(MaxTileZ) - 1), z : 0..MaxTileZ] :
            t.x < Pow2(t.z) /\ t.y < Pow2(t.z)}
TileSizes == {1, DefaultTileSize}
BoundsArgs == {b \in [1..4 -> 0..MaxCoord] : b[1] < b[3] /\ b[2] < b[4]}
CoordsArgs == [1..2 -> 0..MaxCoord]

-----------------------------------------------------------------------------
(* CompositeTiler: state of one composite and of one call made on it *)

VARIABLES
    readers,   \* self.readers: the wrapped tilers' sources, in order
    ccall,     \* the call made on the composite: operation and arguments
    pc,        \* the caller's position: idle, await (in apply), returned, raised
    br,        \* br[i]: branch i is none, scheduled, reading, done or failed
    issued,    \* issued[i]: the calls branch i has made on its source
    res,       \* res[i]: the result or exception branch i finished with
    finished,  \* the branches in the order they finished
    outer,     \* the future asyncio.gather returned
    cret       \* what the call gave its caller

cvars == <<readers, ccall, pc, br, issued, res, finished, outer, cret>>
vars == <<tsrc, tcall, tout, readers, ccall, pc, br, issued, res, finished, outer, cret>>

NoRes == [exc |-> "none"]
NameError == [exc |-> "NameError: name 'r' is not defined"]
InputError(i) == [exc |-> "InputError", reader |-> i]
ReadError(i) == [exc |-> "SourceError", reader |-> i]

NoOuter == [exc |-> NoRes, state |-> "none", list |-> <<>>]
PendingOuter == [exc |-> NoRes, state |-> "pending", list |-> <<>>]
NoRet == [exc |-> NoRes, list |-> <<>>, kind |-> "none"]

N == Len(readers)
Branches == 1..N

\* the sources a composite wraps: two rasters that differ in CRS and size
CompositeSources ==
    {[a |-> 1, crs |-> WebMercator, width |-> DefaultTileSize,
      height |-> DefaultTileSize, e |-> 1],
     [a |-> 2, crs |-> UTM18, width |-> DefaultTileSize * 2,
      height |-> DefaultTileSize, e |-> 2]}

ReaderLists == UNION {[1..n -> CompositeSources] : n \in 0..MaxReaders}

\* a composite on which nothing has been called
CIdleWith(rs) ==
    /\ readers = rs
    /\ ccall = NoCall
    /\ pc = "idle"
    /\ br = [i \in 1..Len(rs) |-> "none"]
    /\ issued = [i \in 1..Len(rs) |-> <<>>]
    /\ res = [i \in 1..Len(rs) |-> NoRes]
    /\ finished = <<>>
    /\ outer = NoOuter
    /\ cret = NoRet

CIdle == CIdleWith(<<>>)

-----------------------------------------------------------------------------
(* CompositeTiler.apply and asyncio.gather *)

\* func(reader) for the lambdas of lines 243, 254 and 265.  The sides of the
\* composite's sources are powers of two, so preview's ratio is an exact double.
Func(call, src) ==
    IF call.op = "tile"
    THEN COGTiler_tile(src, call.x, call.y, call.z, call.tile_size, call.tms,
                       call.resample_method)
    ELSE IF call.op = "part"
    THEN COGTiler_part(src, call.bounds, call.bounds_crs, call.width, call.height)
    ELSE COGTiler_preview(src, call.width, call.height, call.max_size,
                          call.resample_method, FALSE)

\* line 270: the lambda's parameter is f and its body names r, which is bound
\* nowhere, so calling it raises NameError before any coroutine exists
FuncRaisesNameError(call) == call.op = "info"

\* the operation of a branch reprojects before it reads (and may raise there)
Reprojects(call, src) ==
    \/ call.op = "tile" /\ TileNeedsWarp(src, call.tms)
    \/ call.op = "part" /\ call.bounds_crs # src.crs

\* a gather that hands the results over in the order the branches finished
GatherResults_CompletionOrder(rs, fin, n) == [k \in 1..n |-> rs[fin[k]]]

\* asyncio.gather, all children finished: results = [fut.result() for fut in children]
GatherResults(rs, fin, n) == [i \in 1..n |-> rs[i]]

\* a gather called with return_exceptions=True: an exception is one more result
GatherDoneCallback_ReturnExceptions(o, i, st, rs, fin, n) ==
    IF o.state # "pending" THEN o
    ELSE IF Len(fin) = n
    THEN [exc |-> NoRes, state |-> "result", list |-> GatherResults(rs, fin, n)]
    ELSE o

\* asyncio.gather's _done_callback for child i (return_exceptions=False), given
\* the states, results and finishing order with child i counted in
GatherDoneCallback(o, i, st, rs, fin, n) ==
    IF o.state # "pending" THEN o
    ELSE IF st[i] = "failed"
    THEN [exc |-> rs[i], state |-> "exception", list |-> <<>>]
    ELSE IF Len(fin) = n
    THEN [exc |-> NoRes, state |-> "result", list |-> GatherResults(rs, fin, n)]
    ELSE o

\* a fan-out that runs the operations one after the other
MayStart_Sequential(i, st) ==
    st[i] = "scheduled" /\ \A j \in 1..(i - 1) : st[j] \in {"done", "failed"}

\* the event loop may run a scheduled task's first step
MayStart(i, st) == st[i] = "scheduled"

\* lines 230-231 up to the await: every func(reader) is called, then gather
\* wraps every coroutine in a task and gives the future that is awaited
Apply(call) ==
    /\ pc = "idle"
    /\ ccall' = call
    /\ IF FuncRaisesNameError(call) /\ N > 0
       THEN /\ pc' = "raised"
            /\ cret' = [exc |-> NameError, list |-> <<>>, kind |-> "exception"]
            /\ UNCHANGED <<br, outer>>
       ELSE /\ pc' = "await"
            /\ br' = [i \in Branches |-> "scheduled"]
            /\ outer' = IF N = 0
                        THEN [exc |-> NoRes, state |-> "result", list |-> <<>>]
                        ELSE PendingOuter
            /\ UNCHANGED cret
    /\ UNCHANGED <<readers, issued, res, finished, tvars>>

CompositeTile ==
    \E tms \in TileSchemes, m \in Methods :
        Apply([tms |-> tms, x |-> 0, y |-> 0, z |-> 0, resample_method |-> m,
               tile_size |-> DefaultTileSize, op |-> "tile"])

CompositePart ==
    \E b \in {<<0, 0, 1, MaxCoord>>}, crs \in {WGS84, UTM18}, d \in {NoneDim, 2} :
        Apply([width |-> d, height |-> d, bounds |-> b,
               bounds_crs |-> crs, op |-> "part"])

CompositePreview ==
    \E ms \in {MaxSize, DefaultTileSize * 2}, m \in Methods :
        Apply([width |-> NoneDim, height |-> NoneDim, resample_method |-> m,
               max_size |-> ms, op |-> "preview"])

CompositeInfo == Apply([op |-> "info"])

\* CompositeTiler defines no point: the name resolves to TilerMixin.point
\* (lines 55-61), whose body is "...", so the call reads nothing and gives None
CompositePoint ==
    /\ pc = "idle"
    /\ \E c \in CoordsArgs :
           ccall' = [coords |-> c, coords_crs |-> WGS84, op |-> "point"]
    /\ pc' = "returned"
    /\ cret' = [exc |-> NoRes, list |-> <<>>, kind |-> "None"]
    /\ UNCHANGED <<readers, br, issued, res, finished, outer, tvars>>

\* child i finishes: its task is done and gather's callback runs
Finish(i, st, value) ==
    /\ br' = [br EXCEPT ![i] = st]
    /\ res' = [res EXCEPT ![i] = value]
    /\ finished' = Append(finished, i)
    /\ outer' = GatherDoneCallback(outer, i, br', res', finished', N)

\* the task of branch i runs up to the await of its read
StartBranch(i) ==
    /\ MayStart(i, br)
    /\ br' = [br EXCEPT ![i] = "reading"]
    /\ issued' = [issued EXCEPT ![i] = Func(ccall, readers[i]).reads]
    /\ UNCHANGED <<readers, ccall, pc, res, finished, outer, cret, tvars>>

\* the task of branch i raises in its reprojection, before any read
RaiseBeforeRead(i) ==
    /\ MayStart(i, br)
    /\ Reprojects(ccall, readers[i])
    /\ Finish(i, "failed", InputError(i))
    /\ UNCHANGED <<readers, ccall, pc, issued, cret, tvars>>

\* the read of branch i completes and the operation returns
CompleteRead(i) ==
    /\ br[i] = "reading"
    /\ Finish(i, "done", Func(ccall, readers[i]).ret)
    /\ UNCHANGED <<readers, ccall, pc, issued, cret, tvars>>

\* the read of branch i raises and the operation lets the exception through
FailRead(i) ==
    /\ br[i] = "reading"
    /\ Finish(i, "failed", ReadError(i))
    /\ UNCHANGED <<readers, ccall, pc, issued, cret, tvars>>

\* line 231: the await of gather's future ends, with its result or exception
Resume ==
    /\ pc = "await"
    /\ outer.state \in {"result", "exception"}
    /\ pc' = IF outer.state = "result" THEN "returned" ELSE "raised"
    /\ cret' = IF outer.state = "result"
               THEN [exc |-> NoRes, list |-> outer.list, kind |-> "list"]
               ELSE [exc |-> outer.exc, list |-> <<>>, kind |-> "exception"]
    /\ UNCHANGED <<readers, ccall, br, issued, res, finished, outer, tvars>>

TIdle ==
    /\ tsrc = CHOOSE src \in CompositeSources : src.crs = WebMercator
    /\ tcall = NoCall
    /\ tout = NoOut

Init ==
    /\ \E rs \in ReaderLists : CIdleWith(rs)
    /\ TIdle

Next ==
    \/ CompositeTile
    \/ CompositePart
    \/ CompositePreview
    \/ CompositeInfo
    \/ CompositePoint
    \/ \E i \in Branches : StartBranch(i)
    \/ \E i \in Branches : RaiseBeforeRead(i)
    \/ \E i \in Branches : CompleteRead(i)
    \/ \E i \in Branches : FailRead(i)
    \/ Resume

Spec == Init /\ [][Next]_vars

-----------------------------------------------------------------------------
(* One COGTiler and its caller: operations *)

TInit ==
    /\ tsrc \in Sources
    /\ tcall = NoCall
    /\ tout = NoOut
    /\ CIdle

Tile ==
    /\ tcall = NoCall
    /\ \E t \in Tiles, ts \in TileSizes, tms \in TileSchemes, m \in Methods, ok \in BOOLEAN :
        /\ tcall' = [tms |-> tms, x |-> t.x, y |-> t.y, z |-> t.z, resample_method |-> m,
                     tile_size |-> ts, op |-> "tile"]
        /\ tout' = Deliver(COGTiler_tile(tsrc, t.x, t.y, t.z, ts, tms, m), ok)
        /\ UNCHANGED <<tsrc, cvars>>

Point ==
    /\ tcall = NoCall
    /\ \E c \in CoordsArgs, crs \in {WGS84, UTM18}, ok \in BOOLEAN :
        /\ tcall' = [coords |-> c, coords_crs |-> crs, op |-> "point"]
        /\ tout' = Deliver(COGTiler_point(tsrc, c, crs), ok)
        /\ UNCHANGED <<tsrc, cvars>>

Part ==
    /\ tcall = NoCall
    /\ \E b \in BoundsArgs, crs \in {WGS84, UTM18}, w \in OptDims, h \in OptDims, ok \in BOOLEAN :
        /\ tcall' = [width |-> w, height |-> h, bounds |-> b,
                     bounds_crs |-> crs, op |-> "part"]
        /\ tout' = Deliver(COGTiler_part(tsrc, b, crs, w, h), ok)
        /\ UNCHANGED <<tsrc, cvars>>

Preview ==
    /\ tcall = NoCall
    /\ \E w \in OptDims, h \in OptDims, ms \in 1..MaxSize, m \in Methods,
       fp_up \in BOOLEAN, ok \in BOOLEAN :
        /\ tcall' = [width |-> w, height |-> h, resample_method |-> m, max_size |-> ms,
                     op |-> "preview"]
        /\ tout' = Deliver(COGTiler_preview(tsrc, w, h, ms, m, fp_up), ok)
        /\ UNCHANGED <<tsrc, cvars>>

Info ==
    /\ tcall = NoCall
    /\ tcall' = [op |-> "info"]
    /\ tout' = Deliver(COGTiler_info(tsrc), TRUE)
    /\ UNCHANGED <<tsrc, cvars>>

\* the caller takes the outcome; the tiler keeps no state between calls
TReturn ==
    /\ tcall # NoCall
    /\ tcall' = NoCall
    /\ tout' = NoOut
    /\ UNCHANGED <<tsrc, cvars>>

TNext == Tile \/ Point \/ Part \/ Preview \/ Info \/ TReturn

TilerSpec == TInit /\ [][TNext]_vars

-----------------------------------------------------------------------------
(* Properties of COGTiler *)

\* the bounds of a part() call, expressed in the source's CRS
PartBoundsInSourceCrs ==
    IF tcall.bounds_crs # tsrc.crs
    THEN TransformBounds(tcall.bounds_crs, tsrc.crs, tcall.bounds)
    ELSE tcall.bounds

\* n is the ceiling of extent / pixel for a positive pixel size
IsCeilOf(n, extent, pixel) == n * pixel >= extent /\ (n - 1) * pixel < extent

\* C5: a tile request whose scheme CRS equals the source CRS makes exactly one
\* windowed read, of the scheme's bounding box for (x, y, z) at shape
\* (tile_size, tile_size) with the requested resampling method, makes no
\* reproject call, and returns what that read returned.
C5_SameCrsTileIsDirectRead ==
    (tcall.op = "tile" /\ tsrc.crs = tcall.tms.crs) =>
        LET box == XYBounds(tcall.tms, tcall.x, tcall.y, tcall.z)
            shape == <<tcall.tile_size, tcall.tile_size>>
        IN  /\ tout.reads = <<ReadCall(box, shape, tcall.resample_method)>>
            /\ tout.warps = <<>>
            /\ tout.status = "returned" =>
                   tout.ret = CogRead(tsrc, box, shape, tcall.resample_method)

C5_Witness ==
    /\ tcall.op = "tile"
    /\ tsrc.crs = tcall.tms.crs
    /\ tcall.resample_method = BILINEAR
    /\ tcall.z = MaxTileZ
    /\ tout.status = "returned"

\* C6: info() reports min_zoom <= max_zoom, max_zoom being the zoom of the larger
\* pixel-size component and min_zoom the zoom of that resolution scaled by
\* max(width, height) / 256.
C6_ZoomBoundsOrdered ==
    tcall.op = "info" =>
        LET resolution == Max(tsrc.a, tsrc.e)
        IN  /\ tout.ret.max_zoom = ZoomForPixelsize(resolution * DefaultTileSize)
            /\ tout.ret.min_zoom =
                   ZoomForPixelsize(resolution * Max(tsrc.width, tsrc.height))
            /\ tout.ret.min_zoom <= tout.ret.max_zoom

\* C7: preview() with neither width nor height reads the full native bounds
\* once, at a shape whose longer side is at most max_size and whose shorter side
\* is within one pixel of what the native aspect ratio gives; a raster with
\* both sides below max_size is read at its native size.
C7_PreviewShapeBounded ==
    (tcall.op = "preview" /\ tcall.width = NoneDim /\ tcall.height = NoneDim) =>
        /\ Len(tout.reads) = 1
        /\ tout.reads[1].bounds = CogBounds(tsrc)
        /\ LET w == tout.reads[1].shape[1]
               h == tout.reads[1].shape[2]
           IN  /\ Max(w, h) <= tcall.max_size
               /\ Abs(w * tsrc.height - h * tsrc.width) <= Max(tsrc.width, tsrc.height)
               /\ Max(tsrc.width, tsrc.height) < tcall.max_size =>
                      (w = tsrc.width /\ h = tsrc.height)

\* a raster scaled down, not square, and one read at its native size
C7_Witness ==
    /\ tcall.op = "preview" /\ tcall.width = NoneDim /\ tcall.height = NoneDim
    /\ tsrc.width = 3 /\ tsrc.height = DefaultTileSize
    /\ tcall.max_size = MaxSize
    /\ tout.reads[1].shape = <<1, MaxSize>>

\* C8: part() without width and height makes one read, of the bounds expressed
\* in the source CRS, at width = ceil((max_x - min_x) / pixel width) and
\* height = ceil((max_y - min_y) / |pixel height|); a supplied width and height
\* are the read's shape unchanged.
C8_PartShape ==
    tcall.op = "part" =>
        LET b == PartBoundsInSourceCrs
        IN  /\ Len(tout.reads) = 1
            /\ tout.reads[1].fn = "read"
            /\ tout.reads[1].bounds = b
            /\ (tcall.width = NoneDim /\ tcall.height = NoneDim) =>
                   /\ IsCeilOf(tout.reads[1].shape[1], b[3] - b[1], tsrc.a)
                   /\ IsCeilOf(tout.reads[1].shape[2], b[4] - b[2], tsrc.e)
            /\ (tcall.width > 0 /\ tcall.height > 0) =>
                   tout.reads[1].shape = <<tcall.width, tcall.height>>

\* an extent that is not a whole number of pixels, after reprojection
C8_Witness ==
    /\ tcall.op = "part" /\ tcall.width = NoneDim /\ tcall.height = NoneDim
    /\ tcall.bounds_crs # tsrc.crs
    /\ (PartBoundsInSourceCrs[3] - PartBoundsInSourceCrs[1]) % tsrc.a # 0
    /\ tout.status = "returned"

\* C10: a warped tile read resamples the array that was read, from the grid of
\* the reprojected bounds in the source CRS onto the grid of the requested
\* bounds in the scheme CRS, with the resampling method the caller requested,
\* and returns the resampled array cast to the native data type.
C10_WarpUsesRequestedMethod ==
    (tcall.op = "tile" /\ tsrc.crs # tcall.tms.crs /\ tout.status = "returned") =>
        LET box == XYBounds(tcall.tms, tcall.x, tcall.y, tcall.z)
            srcbox == TransformBounds(tcall.tms.crs, tsrc.crs, box)
            ts == tcall.tile_size
        IN  /\ Len(tout.warps) = 1
            /\ tout.warps[1].of = CogRead(tsrc, srcbox, <<ts, ts>>, tcall.resample_method)
            /\ tout.warps[1].src_transform = FromBounds(srcbox, ts, ts)
            /\ tout.warps[1].src_crs = tsrc.crs
            /\ tout.warps[1].dst_transform = FromBounds(box, ts, ts)
            /\ tout.warps[1].dst_crs = tcall.tms.crs
            /\ tout.warps[1].resampling = tcall.resample_method
            /\ tout.ret = Astype(tout.warps[1], ProfileDtype(tsrc))

-----------------------------------------------------------------------------
(* Properties of CompositeTiler *)

InApply == ccall.op \in {"tile", "part", "preview", "info"}
Failed == {i \in Branches : br[i] = "failed"}
AllIdentical == \A i, j \in Branches : readers[i] = readers[j]

\* the first branch that failed, in finishing order
FirstFailed ==
    finished[CHOOSE k \in 1..Len(finished) :
                 /\ finished[k] \in Failed
                 /\ \A m \in 1..(k - 1) : finished[m] \notin Failed]

\* C1: once every per-source operation has completed successfully, what apply
\* hands back is a list of exactly N results whose i-th element is what the
\* operation gives on the i-th wrapped tiler, whatever the order of completion.
C1_ResultsInReaderOrder ==
    (InApply /\ pc \in {"await", "returned"} /\ \A i \in Branches : br[i] = "done") =>
        /\ outer.state = "result"
        /\ Len(outer.list) = N
        /\ \A i \in Branches :
               /\ outer.list[i] = res[i]
               /\ outer.list[i] = Func(ccall, readers[i]).ret
        /\ pc = "returned" => (cret.kind = "list" /\ cret.list = outer.list)

\* three different-looking branches that finished in another order than they
\* were given
C1_Witness ==
    /\ InApply /\ pc = "returned"
    /\ N = 3
    /\ readers[1] # readers[2]
    /\ finished = <<3, 1, 2>>
    /\ cret.list[1] # cret.list[2]

\* C2: once a per-source operation has failed, apply does not return a result
\* list: the awaited future holds the first failure, and when the await ends
\* the caller gets that exception, whatever the siblings did before or do after.
C2_FailureFailsTheCall ==
    (InApply /\ Failed # {}) =>
        /\ outer.state = "exception"
        /\ outer.exc = res[FirstFailed]
        /\ pc \in {"await", "raised"}
        /\ pc = "raised" => (cret.kind = "exception" /\ cret.exc = outer.exc)

\* the call has raised; one sibling had completed before the failure and
\* another completed after the caller got the exception
C2_Witness ==
    /\ InApply /\ pc = "raised"
    /\ N = 3
    /\ br = <<"done", "failed", "done">>
    /\ finished = <<1, 2, 3>>
    /\ cret.exc = ReadError(2)

\* C3: on a composite of identical sources, each of tile, part, point and
\* preview returns N results, in order, that are pairwise equal.
C3_IdenticalSourcesEqualResults ==
    (ccall.op \in {"tile", "part", "point", "preview"} /\ pc = "returned"
     /\ AllIdentical) =>
        /\ cret.kind = "list"
        /\ Len(cret.list) = N
        /\ \A i, j \in Branches : cret.list[i] = cret.list[j]

\* C4: info() on the composite returns the list of the wrapped tilers' info
\* summaries, one per tiler, in order.
C4_InfoReturnsSummaries ==
    (ccall.op = "info" /\ pc \in {"returned", "raised"}) =>
        /\ cret.kind = "list"
        /\ Len(cret.list) = N
        /\ \A i \in Branches : cret.list[i] = COGTiler_info(readers[i]).ret

\* C9: when apply starts to wait, every branch has been started as a task, and
\* a branch that is scheduled can issue its read whatever state the other
\* branches are in: no completion of another branch's read is waited for.
C9_EveryBranchCanIssueItsRead ==
    /\ pc = "await" => \A i \in Branches : br[i] # "none"
    /\ \A i \in Branches : br[i] = "scheduled" => ENABLED StartBranch(i)
    /\ \A i \in Branches : br[i] \in {"reading", "done"} => Len(issued[i]) = 1

\* every branch waits on its read and none has completed
C9_Witness ==
    /\ pc = "await"
    /\ N = MaxReaders
    /\ \A i \in Branches : br[i] = "reading" /\ Len(issued[i]) = 1

=============================================================================
